---------------------------- MODULE Spec2Model ----------------------------
(***************************************************************************)
(* Model of src/server.py: the Twilio <-> OpenAI Realtime bridge.          *)
(*                                                                         *)
(*   - incoming_call: the call-setup webhook, which prefetches the CRM     *)
(*     record of the caller and stores it in caller_info_cache;            *)
(*   - media_stream: the per-call websocket handler with its two relay     *)
(*     loops receive_from_twilio and receive_from_openai, run under        *)
(*     asyncio.gather, and its finally block;                              *)
(*   - lookup_application_status and the tool dispatch.                    *)
(*                                                                         *)
(* Every coroutine is cut at its awaits: one action is the code between    *)
(* two suspension points.  The environment (Twilio, OpenAI, Zoho) chooses  *)
(* the events, their order and the provider answers.                       *)
(***************************************************************************)
EXTENDS Integers, Sequences, FiniteSets, TLC

\* ------------------------------------------------------------------ bounds
\* events that the peers of the media streams deliver, all together: start,
\* media, stop, audio delta, function call, a malformed frame, a close
MaxEvents == 3

\* ------------------------------------------------------------------ values
\* Python None of a string-valued name; Nil is None of a dict-valued name
None == "None"
Nil == [nil |-> TRUE]
CallSids == {"CA1", "CA2"}
Phones == {"p1"}
\* the stream id carried by the k-th event of a media stream, when a start
StreamSid(k) == [streamSid |-> k]
Contacts == {"maria"}
\* the incoming_call invocations and the media_stream invocations of a run
Handlers == {1, 2}
Bridges == {1, 2}
\* the bridge whose relay loops Spec follows in full
MainBridge == CHOOSE b \in Bridges : \A c \in Bridges : b <= c

Falsy(x) == x \in {None, ""}

\* A provider answer to one search: the HTTP client raises (provider
\* unreachable, body not JSON), or the COQL response carries rows.
Rows(n) == UNION {[1..k -> Contacts] : k \in 0..n}
Answers(n) == {[raises |-> TRUE, rows |-> <<>>]}
                \cup {[raises |-> FALSE, rows |-> r] : r \in Rows(n)}
NoRows == [raises |-> FALSE, rows |-> <<>>]
Providers == [phone : Answers(1), email : Answers(1), name : Answers(2)]
LookupArgs == [phone : {None, "p1"}, email : {None, "e1"},
               first_name : {None, "Maria"}, last_name : {None, "Lopez"}]

\* ---------------------------------------------------- lookup (CRM) helpers
\* faulty variant: the match is not used
SearchFirstRowIgnored(rows) == Nil

\* search_by_phone / search_by_email: first row or None
SearchFirstRow(rows) == IF Len(rows) > 0 THEN [contact |-> rows[1]] ELSE Nil

\* faulty variant: the first of several candidates is taken
SearchByNameFirst(rows) ==
    IF Len(rows) > 0 THEN [contact |-> rows[1]] ELSE Nil

\* search_by_name: more than one row is reported as multiple_matches
SearchByName(rows) ==
    IF Len(rows) > 0
    THEN IF Len(rows) > 1
         THEN [multiple_matches |-> TRUE, count |-> Len(rows)]
         ELSE [contact |-> rows[1]]
    ELSE Nil

IsMultiple(contact) == "multiple_matches" \in DOMAIN contact

Raised == [raised |-> TRUE]
NotFoundResult == [found |-> FALSE, message |-> "not_found"]
AmbiguousResult == [found |-> FALSE, message |-> "multiple"]
FoundResult(contact) == [found |-> TRUE, first_name |-> contact.contact]

\* lookup_application_status(phone, email, first_name, last_name) against the
\* provider answers prov.  The value is [out, searched]: out is the returned
\* dict, or Raised when a search raised (nothing in the function catches it);
\* searched lists the searches invoked, in order.
LookupApplicationStatus(phone, email, first_name, last_name, prov) ==
    LET doPhone == ~Falsy(phone)
        phoneRaised == doPhone /\ prov.phone.raises
        c1 == IF doPhone /\ ~phoneRaised THEN SearchFirstRow(prov.phone.rows) ELSE Nil
        s1 == IF doPhone THEN <<"phone">> ELSE <<>>
        doEmail == ~phoneRaised /\ c1 = Nil /\ ~Falsy(email)
        emailRaised == doEmail /\ prov.email.raises
        c2 == IF doEmail /\ ~emailRaised THEN SearchFirstRow(prov.email.rows) ELSE c1
        s2 == IF doEmail THEN Append(s1, "email") ELSE s1
        doName == /\ ~phoneRaised /\ ~emailRaised /\ c2 = Nil
                  /\ ~Falsy(first_name) /\ ~Falsy(last_name)
        nameRaised == doName /\ prov.name.raises
        c3 == IF doName /\ ~nameRaised THEN SearchByName(prov.name.rows) ELSE c2
        s3 == IF doName THEN Append(s2, "name") ELSE s2
    IN  IF phoneRaised \/ emailRaised \/ nameRaised
        THEN [out |-> Raised, searched |-> s3]
        ELSE IF doName /\ IsMultiple(c3)
        THEN [out |-> AmbiguousResult, searched |-> s3]
        ELSE IF c3 = Nil
        THEN [out |-> NotFoundResult, searched |-> s3]
        ELSE [out |-> FoundResult(c3), searched |-> s3]

\* search_knowledge_base: every provider failure is caught inside the
\* function, which returns a found / not-found answer and never raises
KnowledgeResults == {[found |-> TRUE, answer |-> "text"],
                     [found |-> FALSE, answer |-> "fallback"]}

\* get_system_prompt: the prefetch section is rendered only for a found record
GetSystemPrompt(phone, prefetch) ==
    IF prefetch # Nil /\ prefetch.found
    THEN [prefetch_context |-> TRUE, caller_id |-> phone,
          first_name |-> prefetch.first_name]
    ELSE [prefetch_context |-> FALSE]

\* ------------------------------------------------------------------- state
VARIABLES
    caller_info_cache,  \* CallSid -> the stored dict, or Nil when absent
    webhook,            \* per incoming_call invocation: pc, locals, response
    putLog,             \* history: per CallSid, the dicts stored under it
    startLog,           \* history: what each 'start' event took from the cache
    pc,                 \* per media_stream invocation: where the handler is
    stream_sid, call_sid, caller_phone, prefetch_result,   \* its nonlocals
    openai_ws,          \* None or the connection handle
    twPc, twEnd,        \* receive_from_twilio: position, and why it ended
    oaPc, oaEnd,        \* receive_from_openai: position, and why it ended
    pending,            \* the tool call receive_from_openai is awaiting
    twOpen, aiOpen,     \* the peers' ends of the two connections
    aiSent,             \* messages sent on openai_ws, in order
    twSent,             \* messages sent on the Twilio websocket, in order
    closeCalls,         \* number of openai_ws.close() calls
    mediaIn,            \* history: payloads of the 'media' events received
    callsIn,            \* history: the function calls received
    nTw, nAi,           \* events delivered so far by Twilio / by OpenAI
    lookup,             \* a lookup_application_status call: inputs, outcome
    kb                  \* a search_knowledge_base call: position, polls, result

bridgeVars == <<pc, stream_sid, call_sid, caller_phone, prefetch_result,
                openai_ws, twPc, twEnd, oaPc, oaEnd, pending, twOpen, aiOpen,
                aiSent, twSent, closeCalls, mediaIn, callsIn, nTw, nAi>>
storeVars == <<caller_info_cache, putLog, startLog>>
toolVars == <<lookup, kb>>
vars == <<caller_info_cache, webhook, putLog, startLog, pc, stream_sid,
          call_sid, caller_phone, prefetch_result, openai_ws, twPc, twEnd,
          oaPc, oaEnd, pending, twOpen, aiOpen, aiSent, twSent, closeCalls,
          mediaIn, callsIn, nTw, nAi, lookup, kb>>

\* no media stream accepted yet
InitBridges ==
    /\ startLog = {}
    /\ pc = [b \in Bridges |-> "idle"]
    /\ stream_sid = [b \in Bridges |-> Nil]
    /\ call_sid = [b \in Bridges |-> None]
    /\ caller_phone = [b \in Bridges |-> None]
    /\ prefetch_result = [b \in Bridges |-> Nil]
    /\ openai_ws = [b \in Bridges |-> None]
    /\ twPc = [b \in Bridges |-> "none"]
    /\ twEnd = [b \in Bridges |-> "none"]
    /\ oaPc = [b \in Bridges |-> "none"]
    /\ oaEnd = [b \in Bridges |-> "none"]
    /\ pending = [b \in Bridges |-> Nil]
    /\ twOpen = [b \in Bridges |-> TRUE]
    /\ aiOpen = [b \in Bridges |-> FALSE]
    /\ aiSent = [b \in Bridges |-> <<>>]
    /\ twSent = [b \in Bridges |-> <<>>]
    /\ closeCalls = [b \in Bridges |-> 0]
    /\ mediaIn = [b \in Bridges |-> <<>>]
    /\ callsIn = [b \in Bridges |-> <<>>]
    /\ nTw = [b \in Bridges |-> 0]
    /\ nAi = [b \in Bridges |-> 0]

\* no tool call followed on its own
NoCall == [pc |-> "none"]
InitNoTool ==
    /\ lookup = NoCall
    /\ kb = NoCall

\* empty cache, no request yet
InitStore ==
    /\ caller_info_cache = [x \in CallSids |-> Nil]
    /\ webhook = [w \in Handlers |->
                    [pc |-> "idle", caller_phone |-> "", call_sid |-> "",
                     response |-> Nil]]
    /\ putLog = [x \in CallSids |-> <<>>]

\* the process after start-up
Init ==
    /\ InitStore
    /\ InitBridges
    /\ InitNoTool

\* ------------------------------------------------- incoming_call (webhook)
Requests == [decodable : BOOLEAN,
             bodyFrom : Phones \cup {""}, bodySid : CallSids \cup {""},
             queryFrom : Phones \cup {""}, querySid : CallSids \cup {""}]

\* The try block of incoming_call: From and CallSid from the form body, then
\* from the query string; an exception while decoding leaves both empty.
ParseRequest(req) ==
    IF ~req.decodable
    THEN [caller_phone |-> "", call_sid |-> ""]
    ELSE [caller_phone |-> IF req.bodyFrom # "" THEN req.bodyFrom ELSE req.queryFrom,
          call_sid |-> IF req.bodySid # "" THEN req.bodySid ELSE req.querySid]

\* the (From, CallSid) pairs the try block can yield
ParsedRequests == {ParseRequest(req) : req \in Requests}

CacheEntry(phone, prefetch) == [phone |-> phone, prefetch_result |-> prefetch]

\* caller_info_cache[call_sid] = {...} when call_sid is non-empty
CachePut(cache, sid, entry) ==
    IF sid # "" THEN [cache EXCEPT ![sid] = entry] ELSE cache

LogPut(log, sid, entry) ==
    IF sid # "" THEN [log EXCEPT ![sid] = Append(@, entry)] ELSE log

Twiml(sid) == [kind |-> "twiml", callSid |-> sid]
ServerError == [kind |-> "error500"]

\* What the handler does when the awaited prefetch lookup raises: nothing in
\* incoming_call catches it, so the request ends in the framework's error
\* response, with nothing stored.
PrefetchRaised(w) ==
    /\ webhook' = [webhook EXCEPT ![w] =
                     [pc |-> "done", caller_phone |-> "", call_sid |-> "",
                      response |-> ServerError]]
    /\ UNCHANGED <<caller_info_cache, putLog>>

\* Lines 490-509: store under call_sid, answer with the TwiML.
StoreAndRespond(w, phone, sid, prefetch) ==
    /\ caller_info_cache' = CachePut(caller_info_cache, sid, CacheEntry(phone, prefetch))
    /\ putLog' = LogPut(putLog, sid, CacheEntry(phone, prefetch))
    /\ webhook' = [webhook EXCEPT ![w] =
                     [pc |-> "done", caller_phone |-> "", call_sid |-> "",
                      response |-> Twiml(sid)]]

\* incoming_call up to its first await after parsing: with a caller phone it
\* suspends in lookup_application_status, without one it runs to the end.
IncomingCallBegin(w, p) ==
    /\ webhook[w].pc = "idle"
    /\ p \in ParsedRequests
    /\ IF p.caller_phone # ""
       THEN /\ webhook' = [webhook EXCEPT ![w] =
                             [pc |-> "prefetch", caller_phone |-> p.caller_phone,
                              call_sid |-> p.call_sid, response |-> Nil]]
            /\ UNCHANGED <<caller_info_cache, putLog>>
       ELSE StoreAndRespond(w, p.caller_phone, p.call_sid, Nil)
    /\ UNCHANGED <<startLog, bridgeVars, toolVars>>

\* incoming_call resumed with the outcome of the prefetch lookup
IncomingCallPrefetch(w, ans) ==
    /\ webhook[w].pc = "prefetch"
    /\ LET prov == [phone |-> ans, email |-> NoRows, name |-> NoRows]
           r == LookupApplicationStatus(webhook[w].caller_phone, None, None, None, prov).out
       IN  IF r = Raised
           THEN PrefetchRaised(w)
           ELSE StoreAndRespond(w, webhook[w].caller_phone, webhook[w].call_sid, r)
    /\ UNCHANGED <<startLog, bridgeVars, toolVars>>

\* ---------------------------------------------- media_stream: connection
\* websocket.accept(), then the credential check (lines 515-523)
MediaStreamAccept(b, has_key) ==
    /\ pc[b] = "idle"
    /\ IF has_key
       THEN pc' = [pc EXCEPT ![b] = "connecting"] /\ UNCHANGED twOpen
       ELSE pc' = [pc EXCEPT ![b] = "no_key"] /\ twOpen' = [twOpen EXCEPT ![b] = FALSE]
    /\ UNCHANGED <<toolVars, caller_info_cache, webhook, putLog, startLog, stream_sid,
                   call_sid, caller_phone, prefetch_result, openai_ws, twPc,
                   twEnd, oaPc, oaEnd, pending, aiOpen, aiSent, twSent,
                   closeCalls, mediaIn, callsIn, nTw, nAi>>

\* faulty variant: the relay loops are started though the connect failed
MediaStreamConnectLoopsAnyway(b, ok) ==
    /\ pc[b] = "connecting"
    /\ pc' = [pc EXCEPT ![b] = IF ok THEN "gather" ELSE "connect_failed"]
    /\ openai_ws' = [openai_ws EXCEPT ![b] = IF ok THEN "ws" ELSE @]
    /\ aiOpen' = [aiOpen EXCEPT ![b] = ok]
    /\ twPc' = [twPc EXCEPT ![b] = "recv"]
    /\ oaPc' = [oaPc EXCEPT ![b] = "recv"]
    /\ UNCHANGED <<toolVars, caller_info_cache, webhook, putLog, startLog, stream_sid,
                   call_sid, caller_phone, prefetch_result, twEnd, oaEnd,
                   pending, twOpen, aiSent, twSent, closeCalls, mediaIn,
                   callsIn, nTw, nAi>>

\* websockets.client.connect (lines 534-540): on success both loops start
\* under asyncio.gather; on failure the except/finally run with openai_ws None
MediaStreamConnect(b, ok) ==
    /\ pc[b] = "connecting"
    /\ IF ok
       THEN /\ pc' = [pc EXCEPT ![b] = "gather"]
            /\ openai_ws' = [openai_ws EXCEPT ![b] = "ws"]
            /\ aiOpen' = [aiOpen EXCEPT ![b] = TRUE]
            /\ twPc' = [twPc EXCEPT ![b] = "recv"]
            /\ oaPc' = [oaPc EXCEPT ![b] = "recv"]
       ELSE /\ pc' = [pc EXCEPT ![b] = "connect_failed"]
            /\ UNCHANGED <<openai_ws, aiOpen, twPc, oaPc>>
    /\ UNCHANGED <<toolVars, caller_info_cache, webhook, putLog, startLog, stream_sid,
                   call_sid, caller_phone, prefetch_result, twEnd, oaEnd,
                   pending, twOpen, aiSent, twSent, closeCalls, mediaIn,
                   callsIn, nTw, nAi>>

\* faulty variant: the handler returns without closing the connection
MediaStreamFinallyNoClose(b) ==
    /\ pc[b] = "gather"
    /\ twPc[b] = "done"
    /\ oaPc[b] = "done"
    /\ pc' = [pc EXCEPT ![b] = "ended"]
    /\ UNCHANGED <<toolVars, caller_info_cache, webhook, putLog, startLog, stream_sid,
                   call_sid, caller_phone, prefetch_result, openai_ws, twPc,
                   twEnd, oaPc, oaEnd, pending, twOpen, aiOpen, aiSent, twSent,
                   closeCalls, mediaIn, callsIn, nTw, nAi>>

\* the finally block (lines 714-717), reached when gather has returned
MediaStreamFinally(b) ==
    /\ pc[b] = "gather"
    /\ twPc[b] = "done"
    /\ oaPc[b] = "done"
    /\ pc' = [pc EXCEPT ![b] = "ended"]
    /\ closeCalls' = [closeCalls EXCEPT ![b] = IF openai_ws[b] # None THEN @ + 1 ELSE @]
    /\ UNCHANGED <<toolVars, caller_info_cache, webhook, putLog, startLog, stream_sid,
                   call_sid, caller_phone, prefetch_result, openai_ws, twPc,
                   twEnd, oaPc, oaEnd, pending, twOpen, aiOpen, aiSent, twSent,
                   mediaIn, callsIn, nTw, nAi>>

\* --------------------------------------------- messages on the two sockets
SessionUpdate(instructions) ==
    [type |-> "session.update", instructions |-> instructions]
GreetingCreate == [type |-> "response.create", response |-> "modalities"]
ToolCreate == [type |-> "response.create"]
AudioAppend(payload) == [type |-> "input_audio_buffer.append", audio |-> payload]
FunctionCallOutput(id, result) ==
    [type |-> "conversation.item.create", item |-> "function_call_output",
     call_id |-> id, output |-> result]
TwilioMediaOut(sid, payload) ==
    [event |-> "media", streamSid |-> sid, payload |-> payload]

\* ------------------------------------------- receive_from_twilio (564-615)
\* faulty variant: the loop does not read while a tool call is awaited
TwilioReceivingBlockedByTool(b) ==
    /\ pc[b] = "gather"
    /\ twPc[b] = "recv"
    /\ twOpen[b]
    /\ oaPc[b] # "tool"

\* the loop is suspended in websocket.iter_text() and the peer is connected
TwilioReceiving(b) ==
    /\ pc[b] = "gather"
    /\ twPc[b] = "recv"
    /\ twOpen[b]

\* faulty variant: the message overtakes what was sent before it
TwilioLoopSendFront(b, msg, next) ==
    /\ aiSent' = [aiSent EXCEPT ![b] = <<msg>> \o @]
    /\ twPc' = [twPc EXCEPT ![b] = next]
    /\ UNCHANGED twEnd

\* await openai_ws.send(msg) inside receive_from_twilio: the message goes out
\* and the loop continues at `next`, or the connection is closed, send raises
\* and the except clause of line 614 ends the loop.
TwilioLoopSend(b, msg, next) ==
    IF aiOpen[b]
    THEN /\ aiSent' = [aiSent EXCEPT ![b] = Append(@, msg)]
         /\ twPc' = [twPc EXCEPT ![b] = next]
         /\ UNCHANGED twEnd
    ELSE /\ twPc' = [twPc EXCEPT ![b] = "done"]
         /\ twEnd' = [twEnd EXCEPT ![b] = "send_error"]
         /\ UNCHANGED aiSent

\* faulty variant: one slot for all calls, read whatever the key
CachedForAnyKey(cache, sid) ==
    IF \E x \in DOMAIN cache : cache[x] # Nil
    THEN cache[CHOOSE x \in DOMAIN cache : cache[x] # Nil]
    ELSE Nil

\* `call_sid and call_sid in caller_info_cache` then the read (585-588)
CachedFor(cache, sid) ==
    IF ~Falsy(sid) /\ sid \in DOMAIN cache THEN cache[sid] ELSE Nil

\* faulty variant: a start event clears the whole cache
CacheAfterTakeAll(cache, sid) == [x \in DOMAIN cache |-> Nil]

\* faulty variant: the entry is read and left in the cache
CacheAfterTakeKept(cache, sid) == cache

\* del caller_info_cache[call_sid] (591), done only on a hit
CacheAfterTake(cache, sid) ==
    IF CachedFor(cache, sid) # Nil THEN [cache EXCEPT ![sid] = Nil] ELSE cache

PutsSoFar(sid) == IF sid \in CallSids THEN Len(putLog[sid]) ELSE 0

\* the events delivered so far, over all media streams
Delivered ==
    LET sum[B \in SUBSET Bridges] ==
            IF B = {} THEN 0
            ELSE LET x == CHOOSE x \in B : TRUE
                 IN  nTw[x] + nAi[x] + sum[B \ {x}]
    IN  sum[Bridges]

\* the peers of media stream b may deliver one more event
MoreEvents(b) == Delivered < MaxEvents

\* event == "connected"
TwilioConnected(b) ==
    /\ TwilioReceiving(b)
    /\ UNCHANGED vars

\* event == "start", up to the await inside configure_session (575-594)
TwilioStart(b, csid) ==
    /\ TwilioReceiving(b)
    /\ MoreEvents(b)
    /\ nTw' = [nTw EXCEPT ![b] = @ + 1]
    /\ LET cached == CachedFor(caller_info_cache, csid)
           phone == IF cached # Nil THEN cached.phone ELSE caller_phone[b]
           prefetch == IF cached # Nil THEN cached.prefetch_result
                       ELSE prefetch_result[b]
       IN  /\ stream_sid' = [stream_sid EXCEPT ![b] = StreamSid(nTw[b] + 1)]
           /\ call_sid' = [call_sid EXCEPT ![b] = csid]
           /\ caller_phone' = [caller_phone EXCEPT ![b] = phone]
           /\ prefetch_result' = [prefetch_result EXCEPT ![b] = prefetch]
           /\ caller_info_cache' = CacheAfterTake(caller_info_cache, csid)
           /\ startLog' = startLog \cup
                 {[bridge |-> b, n |-> nTw[b] + 1, sid |-> csid,
                   epoch |-> PutsSoFar(csid), taken |-> cached,
                   phone |-> phone, prefetch |-> prefetch]}
           /\ TwilioLoopSend(b, SessionUpdate(GetSystemPrompt(phone, prefetch)), "greet")
    /\ UNCHANGED <<toolVars, webhook, putLog, pc, openai_ws, oaPc, oaEnd, pending, twOpen,
                   aiOpen, twSent, closeCalls, mediaIn, callsIn, nAi>>

\* the rest of the start branch: the greeting response.create (597-601)
TwilioGreeting(b) ==
    /\ pc[b] = "gather"
    /\ twPc[b] = "greet"
    /\ TwilioLoopSend(b, GreetingCreate, "recv")
    /\ UNCHANGED <<toolVars, caller_info_cache, webhook, putLog, startLog, pc, stream_sid,
                   call_sid, caller_phone, prefetch_result, openai_ws, oaPc,
                   oaEnd, pending, twOpen, aiOpen, twSent, closeCalls, mediaIn,
                   callsIn, nTw, nAi>>

\* event == "media" (603-608); the k-th frame of a stream carries payload k
TwilioMedia(b) ==
    /\ TwilioReceiving(b)
    /\ MoreEvents(b)
    /\ nTw' = [nTw EXCEPT ![b] = @ + 1]
    /\ LET payload == Len(mediaIn[b]) + 1
       IN  /\ mediaIn' = [mediaIn EXCEPT ![b] = Append(@, payload)]
           /\ TwilioLoopSend(b, AudioAppend(payload), "recv")
    /\ UNCHANGED <<toolVars, caller_info_cache, webhook, putLog, startLog, pc, stream_sid,
                   call_sid, caller_phone, prefetch_result, openai_ws, oaPc,
                   oaEnd, pending, twOpen, aiOpen, twSent, closeCalls, callsIn,
                   nAi>>

\* How receive_from_twilio leaves its loop: why is "stop" for the break of
\* line 612, "disconnected" for iter_text() ending, "json_error" for
\* json.loads raising into the except clause of line 614.
TwilioLoopEnds(b, why) ==
    /\ twPc' = [twPc EXCEPT ![b] = "done"]
    /\ twEnd' = [twEnd EXCEPT ![b] = why]
    /\ UNCHANGED <<toolVars, caller_info_cache, webhook, putLog, startLog, pc, stream_sid,
                   call_sid, caller_phone, prefetch_result, openai_ws, oaPc,
                   oaEnd, pending, twOpen, aiOpen, aiSent, twSent, closeCalls,
                   mediaIn, callsIn, nAi>>

\* What json.loads(message) raising does to receive_from_twilio: the try of
\* line 567 encloses the whole loop, so the loop ends.
TwilioOnMalformed(b) ==
    /\ TwilioLoopEnds(b, "json_error")
    /\ nTw' = [nTw EXCEPT ![b] = @ + 1]

\* event == "stop" (610-612)
TwilioStop(b) ==
    /\ TwilioReceiving(b)
    /\ MoreEvents(b)
    /\ nTw' = [nTw EXCEPT ![b] = @ + 1]
    /\ TwilioLoopEnds(b, "stop")

\* a text frame that is not JSON (569)
TwilioMalformed(b) ==
    /\ TwilioReceiving(b)
    /\ MoreEvents(b)
    /\ TwilioOnMalformed(b)

\* the transport is gone: iter_text() ends the loop
TwilioDisconnected(b) ==
    /\ pc[b] = "gather"
    /\ twPc[b] = "recv"
    /\ ~twOpen[b]
    /\ TwilioLoopEnds(b, "disconnected")
    /\ UNCHANGED nTw

\* Twilio closes the media stream (environment)
TransportClose(b) ==
    /\ pc[b] = "gather"
    /\ twOpen[b]
    /\ MoreEvents(b)
    /\ nTw' = [nTw EXCEPT ![b] = @ + 1]
    /\ twOpen' = [twOpen EXCEPT ![b] = FALSE]
    /\ UNCHANGED <<toolVars, caller_info_cache, webhook, putLog, startLog, pc, stream_sid,
                   call_sid, caller_phone, prefetch_result, openai_ws, twPc,
                   twEnd, oaPc, oaEnd, pending, aiOpen, aiSent, twSent,
                   closeCalls, mediaIn, callsIn, nAi>>

\* ------------------------------------------- receive_from_openai (617-702)
ToolNames == {"lookup_application_status", "search_knowledge_base", "transfer_call"}
DiagnosticTypes == {"session.created", "session.updated",
                    "response.audio_transcript.delta",
                    "response.audio_transcript.done",
                    "input_audio_buffer.speech_started",
                    "input_audio_buffer.speech_stopped",
                    "conversation.item.input_audio_transcription.completed",
                    "error", "response.done"}

\* what receive_from_openai never writes
openaiFrame == <<toolVars, caller_info_cache, webhook, putLog, startLog, pc, stream_sid,
                 call_sid, caller_phone, prefetch_result, openai_ws, twPc,
                 twEnd, twOpen, aiOpen, closeCalls, mediaIn, nTw>>

\* the loop is suspended in `async for message in openai_ws`
OpenAIReceiving(b) ==
    /\ pc[b] = "gather"
    /\ oaPc[b] = "recv"
    /\ aiOpen[b]

\* faulty variant: the message overtakes what was sent before it
OpenAILoopSendFront(b, msg, next) ==
    /\ aiSent' = [aiSent EXCEPT ![b] = <<msg>> \o @]
    /\ oaPc' = [oaPc EXCEPT ![b] = next]
    /\ UNCHANGED oaEnd

\* await openai_ws.send(msg) inside receive_from_openai: as in the other
\* loop, with the except clause of line 701
OpenAILoopSend(b, msg, next) ==
    IF aiOpen[b]
    THEN /\ aiSent' = [aiSent EXCEPT ![b] = Append(@, msg)]
         /\ oaPc' = [oaPc EXCEPT ![b] = next]
         /\ UNCHANGED oaEnd
    ELSE /\ oaPc' = [oaPc EXCEPT ![b] = "done"]
         /\ oaEnd' = [oaEnd EXCEPT ![b] = "send_error"]
         /\ UNCHANGED aiSent

\* How receive_from_openai leaves its loop: "closed" when the connection is
\* closed, "json_error" / "provider_error" / "send_error" for an exception
\* reaching the except clause of line 701.
OpenAILoopEnds(b, why) ==
    /\ oaPc' = [oaPc EXCEPT ![b] = "done"]
    /\ oaEnd' = [oaEnd EXCEPT ![b] = why]

\* faulty variant: a printed message is also passed on to the transport
OpenAIDiagnosticForwarded(b, type) ==
    /\ OpenAIReceiving(b)
    /\ type \in DiagnosticTypes
    /\ twSent' = [twSent EXCEPT ![b] = Append(@, [event |-> type])]
    /\ UNCHANGED <<openaiFrame, oaPc, oaEnd, pending, aiSent, callsIn, nAi>>

\* session.created, session.updated, transcripts, speech markers, error,
\* response.done: printed only
OpenAIDiagnostic(b, type) ==
    /\ OpenAIReceiving(b)
    /\ type \in DiagnosticTypes
    /\ UNCHANGED vars

\* faulty variant: the delta is sent whether or not stream_sid is known
OpenAIAudioDeltaUnguarded(b) ==
    /\ OpenAIReceiving(b)
    /\ MoreEvents(b)
    /\ nAi' = [nAi EXCEPT ![b] = @ + 1]
    /\ twSent' = [twSent EXCEPT ![b] =
                    Append(@, TwilioMediaOut(stream_sid[b], nAi[b] + 1))]
    /\ UNCHANGED <<openaiFrame, oaPc, oaEnd, pending, aiSent, callsIn>>

\* response.audio.delta (631-638); the k-th AI message carries payload k
OpenAIAudioDelta(b) ==
    /\ OpenAIReceiving(b)
    /\ MoreEvents(b)
    /\ nAi' = [nAi EXCEPT ![b] = @ + 1]
    /\ IF stream_sid[b] # Nil
       THEN IF twOpen[b]
            THEN /\ twSent' = [twSent EXCEPT ![b] =
                                 Append(@, TwilioMediaOut(stream_sid[b], nAi[b] + 1))]
                 /\ UNCHANGED <<oaPc, oaEnd>>
            ELSE /\ OpenAILoopEnds(b, "send_error")
                 /\ UNCHANGED twSent
       ELSE UNCHANGED <<oaPc, oaEnd, twSent>>
    /\ UNCHANGED <<openaiFrame, pending, aiSent, callsIn>>

\* the else branch of the dispatch (679-680)
UnknownFunction(name) == [error |-> "Unknown function", name |-> name]

\* faulty variant: a call of an unknown tool is skipped like an unknown event type
OpenAIOnUnknownToolDropped(b, id, name) ==
    UNCHANGED <<oaPc, oaEnd, aiSent, pending>>

\* What the loop does with a call whose name is no known tool: the result is
\* the error dict, sent as function_call_output (684-691)
OpenAIOnUnknownTool(b, id, name) ==
    /\ OpenAILoopSend(b, FunctionCallOutput(id, UnknownFunction(name)), "create")
    /\ UNCHANGED pending

\* response.function_call_arguments.done (658-691), up to the first await:
\* the lookup of a known tool, or the send of the unknown tool's result.
\* The call_id of the k-th AI message is k.
OpenAIFunctionCall(b, name) ==
    /\ OpenAIReceiving(b)
    /\ MoreEvents(b)
    /\ name \in ToolNames
    /\ nAi' = [nAi EXCEPT ![b] = @ + 1]
    /\ callsIn' = [callsIn EXCEPT ![b] =
                      Append(@, [call_id |-> nAi[b] + 1, name |-> name,
                                 media_before |-> Len(mediaIn[b])])]
    /\ IF name \in {"lookup_application_status", "search_knowledge_base"}
       THEN /\ oaPc' = [oaPc EXCEPT ![b] = "tool"]
            /\ pending' = [pending EXCEPT ![b] = [call_id |-> nAi[b] + 1, name |-> name]]
            /\ UNCHANGED <<oaEnd, aiSent>>
       ELSE OpenAIOnUnknownTool(b, nAi[b] + 1, name)
    /\ UNCHANGED <<openaiFrame, twSent>>

\* What the loop does when the awaited lookup raises: the exception reaches
\* the except clause of line 701 and the loop ends, nothing is sent.
OpenAIOnProviderRaise(b) ==
    /\ OpenAILoopEnds(b, "provider_error")
    /\ UNCHANGED aiSent

\* what lookup_application_status can come back with, over every choice of
\* the call's arguments and of the provider's answers
LookupOutcomes ==
    {LookupApplicationStatus(a.phone, a.email, a.first_name, a.last_name, p).out :
        a \in LookupArgs, p \in Providers}

\* lookup_application_status returns or raises (671-676, then 684-691)
OpenAILookupReturn(b, r) ==
    /\ pc[b] = "gather"
    /\ oaPc[b] = "tool"
    /\ pending[b].name = "lookup_application_status"
    /\ r \in LookupOutcomes
    /\ IF r = Raised
       THEN OpenAIOnProviderRaise(b)
       ELSE OpenAILoopSend(b, FunctionCallOutput(pending[b].call_id, r), "create")
    /\ pending' = [pending EXCEPT ![b] = Nil]
    /\ UNCHANGED <<openaiFrame, twSent, callsIn, nAi>>

\* search_knowledge_base returns (677-678, then 684-691)
OpenAIKnowledgeReturn(b, result) ==
    /\ pc[b] = "gather"
    /\ oaPc[b] = "tool"
    /\ pending[b].name = "search_knowledge_base"
    /\ OpenAILoopSend(b, FunctionCallOutput(pending[b].call_id, result), "create")
    /\ pending' = [pending EXCEPT ![b] = Nil]
    /\ UNCHANGED <<openaiFrame, twSent, callsIn, nAi>>

\* the response.create that follows the function_call_output (693)
OpenAIResponseCreate(b) ==
    /\ pc[b] = "gather"
    /\ oaPc[b] = "create"
    /\ OpenAILoopSend(b, ToolCreate, "recv")
    /\ UNCHANGED <<openaiFrame, pending, twSent, callsIn, nAi>>

\* What json.loads(message) raising does to receive_from_openai: the try of
\* line 620 encloses the whole loop, so the loop ends.
OpenAIOnMalformed(b) ==
    /\ OpenAILoopEnds(b, "json_error")
    /\ nAi' = [nAi EXCEPT ![b] = @ + 1]
    /\ UNCHANGED <<openaiFrame, pending, aiSent, twSent, callsIn>>

\* a message that is not JSON (622)
OpenAIMalformed(b) ==
    /\ OpenAIReceiving(b)
    /\ MoreEvents(b)
    /\ OpenAIOnMalformed(b)

\* the AI connection is closed: the async for ends (or raises into 701)
OpenAIClosed(b) ==
    /\ pc[b] = "gather"
    /\ oaPc[b] = "recv"
    /\ ~aiOpen[b]
    /\ OpenAILoopEnds(b, "closed")
    /\ UNCHANGED <<openaiFrame, pending, aiSent, twSent, callsIn, nAi>>

\* OpenAI closes the realtime session (environment)
AIClose(b) ==
    /\ pc[b] = "gather"
    /\ aiOpen[b]
    /\ MoreEvents(b)
    /\ nAi' = [nAi EXCEPT ![b] = @ + 1]
    /\ aiOpen' = [aiOpen EXCEPT ![b] = FALSE]
    /\ UNCHANGED <<toolVars, caller_info_cache, webhook, putLog, startLog, pc, stream_sid,
                   call_sid, caller_phone, prefetch_result, openai_ws, twPc,
                   twEnd, oaPc, oaEnd, pending, twOpen, aiSent, twSent,
                   closeCalls, mediaIn, callsIn, nTw>>

\* ---------------------------------------------------------- specifications
WebhookStep ==
    \/ \E w \in Handlers, p \in ParsedRequests : IncomingCallBegin(w, p)
    \/ \E w \in Handlers, ans \in Answers(1) : IncomingCallPrefetch(w, ans)

ConnectionStep(b) ==
    \/ \E has_key \in BOOLEAN : MediaStreamAccept(b, has_key)
    \/ \E ok \in BOOLEAN : MediaStreamConnect(b, ok)
    \/ MediaStreamFinally(b)

TwilioStep(b, sids) ==
    \/ TwilioConnected(b)
    \/ \E csid \in sids : TwilioStart(b, csid)
    \/ TwilioGreeting(b)
    \/ TwilioMedia(b)
    \/ TwilioStop(b)
    \/ TwilioMalformed(b)
    \/ TwilioDisconnected(b)
    \/ TransportClose(b)

OpenAIStep(b) ==
    \/ \E type \in DiagnosticTypes : OpenAIDiagnostic(b, type)
    \/ OpenAIAudioDelta(b)
    \/ \E name \in ToolNames : OpenAIFunctionCall(b, name)
    \/ \E r \in LookupOutcomes : OpenAILookupReturn(b, r)
    \/ \E result \in KnowledgeResults : OpenAIKnowledgeReturn(b, result)
    \/ OpenAIResponseCreate(b)
    \/ OpenAIMalformed(b)
    \/ OpenAIClosed(b)
    \/ AIClose(b)

\* The store as the webhook of the call left it: nothing stored (no CallSid in
\* the request), or the caller's record stored under the call's CallSid.
InitAnswered ==
    /\ InitBridges
    /\ InitNoTool
    /\ \E sid \in {"", "CA1"} :
         LET entry == CacheEntry("p1", FoundResult([contact |-> "maria"]))
             first == CHOOSE w \in Handlers : \A v \in Handlers : w <= v
         IN  /\ caller_info_cache = CachePut([x \in CallSids |-> Nil], sid, entry)
             /\ putLog = LogPut([x \in CallSids |-> <<>>], sid, entry)
             /\ webhook = [w \in Handlers |->
                             [pc |-> IF w = first THEN "done" ELSE "idle",
                              caller_phone |-> "", call_sid |-> "",
                              response |-> IF w = first THEN Twiml(sid) ELSE Nil]]

\* One media stream in full: both relay loops and every event of the two
\* peers, after the webhook of the call has answered.
Next ==
    \/ ConnectionStep(MainBridge)
    \/ TwilioStep(MainBridge, {"CA1", None})
    \/ OpenAIStep(MainBridge)

Spec == InitAnswered /\ [][Next]_vars

\* Concurrent calls: the webhooks, and of every media stream the steps up to
\* and including its start events, the only ones that touch the store.
CallStep(b) ==
    \/ \E has_key \in BOOLEAN : MediaStreamAccept(b, has_key)
    \/ \E ok \in BOOLEAN : MediaStreamConnect(b, ok)
    \/ \E csid \in CallSids : TwilioStart(b, csid)
    \/ TwilioGreeting(b)

NextCalls ==
    \/ WebhookStep
    \/ \E b \in Bridges : CallStep(b)

SpecCalls == Init /\ [][NextCalls]_vars

\* ------------------------------------------------ the tools on their own
\* Provider answers with a different record behind each search, so that the
\* search a result was built from can be told from the result.
AnswersOf(contacts, n) ==
    {[raises |-> TRUE, rows |-> <<>>]}
        \cup {[raises |-> FALSE, rows |-> r] :
                 r \in UNION {[1..k -> contacts] : k \in 0..n}}
ToolProviders == [phone : AnswersOf({"maria"}, 1),
                  email : AnswersOf({"juan"}, 1),
                  name : AnswersOf({"ana", "luis"}, 2)]

\* a call of lookup_application_status with its arguments, and the answers
\* the provider will give to the searches
LookupCalls == [pc : {"called"}, args : LookupArgs, prov : ToolProviders]

\* lookup_application_status runs to its return, or to the exception that
\* leaves it (305-347)
LookupReturns ==
    /\ lookup.pc = "called"
    /\ LET a == lookup.args
           r == LookupApplicationStatus(a.phone, a.email, a.first_name,
                                        a.last_name, lookup.prov)
       IN  lookup' = [pc |-> "returned", args |-> a, prov |-> lookup.prov,
                      result |-> r.out, searched |-> r.searched]
    /\ UNCHANGED <<kb, caller_info_cache, webhook, putLog, startLog, bridgeVars>>

\* for _ in range(30) (397)
MaxPolls == 30

\* the run statuses the provider reports; the loop knows the first four
RunStatuses == {"completed", "failed", "cancelled", "expired",
                "in_progress", "incomplete"}
KnowledgeFound == [found |-> TRUE, answer |-> "text"]
KnowledgeFallback == [found |-> FALSE, answer |-> "fallback"]

\* search_knowledge_base ends with this result
KnowledgeDone(result) ==
    kb' = [kb EXCEPT !.pc = "done", !.result = result]

\* search_knowledge_base up to the polling loop (351-395): no API key, the
\* thread or the run is refused, or a request raises into the except of
\* line 430: each ends the call with a found=false answer
KnowledgeSetup(outcome) ==
    /\ kb.pc = "setup"
    /\ outcome \in {"ok", "no_key", "thread_refused", "run_refused", "raises"}
    /\ IF outcome = "ok"
       THEN kb' = [kb EXCEPT !.pc = "poll"]
       ELSE KnowledgeDone(KnowledgeFallback)
    /\ UNCHANGED <<lookup, caller_info_cache, webhook, putLog, startLog, bridgeVars>>

\* one turn of the polling loop (397-410): sleep, read the run status;
\* completed breaks, failed / cancelled / expired return the fallback, any
\* other status goes round again; after the last turn the code falls
\* through to the messages
KnowledgePoll(status, raises) ==
    /\ kb.pc = "poll"
    /\ kb.polls < MaxPolls
    /\ status \in RunStatuses
    /\ IF raises
       THEN kb' = [kb EXCEPT !.pc = "done", !.result = KnowledgeFallback,
                             !.polls = @ + 1]
       ELSE IF status = "completed"
       THEN kb' = [kb EXCEPT !.pc = "messages", !.polls = @ + 1,
                             !.terminal = TRUE]
       ELSE IF status \in {"failed", "cancelled", "expired"}
       THEN kb' = [kb EXCEPT !.pc = "done", !.result = KnowledgeFallback,
                             !.polls = @ + 1, !.terminal = TRUE]
       ELSE kb' = [kb EXCEPT !.polls = @ + 1,
                             !.pc = IF kb.polls + 1 = MaxPolls
                                    THEN "messages" ELSE "poll"]
    /\ UNCHANGED <<lookup, caller_info_cache, webhook, putLog, startLog, bridgeVars>>

\* the messages of the thread are read (412-428): an assistant message with
\* content gives found=true, none gives the fallback, a failing request the
\* answer of the except clause
KnowledgeMessages(answer) ==
    /\ kb.pc = "messages"
    /\ answer \in {"assistant_text", "no_assistant_message", "raises"}
    /\ KnowledgeDone(IF answer = "assistant_text"
                     THEN KnowledgeFound ELSE KnowledgeFallback)
    /\ UNCHANGED <<lookup, caller_info_cache, webhook, putLog, startLog, bridgeVars>>

\* one tool call, followed from its call to its return
InitTools ==
    /\ InitStore
    /\ InitBridges
    /\ \/ lookup \in LookupCalls /\ kb = NoCall
       \/ /\ lookup = NoCall
          /\ kb = [pc |-> "setup", polls |-> 0, terminal |-> FALSE, result |-> Nil]

NextTools ==
    \/ LookupReturns
    \/ \E outcome \in {"ok", "no_key", "thread_refused", "run_refused", "raises"} :
          KnowledgeSetup(outcome)
    \/ \E status \in RunStatuses : \E raises \in BOOLEAN : KnowledgePoll(status, raises)
    \/ \E answer \in {"assistant_text", "no_assistant_message", "raises"} :
          KnowledgeMessages(answer)

SpecTools == InitTools /\ [][NextTools]_vars

\* ------------------------------------------------------------------ claims
Indices(seq) == 1..Len(seq)
StartsOf(b) == {r \in startLog : r.bridge = b}
IsAppend(m) == m.type = "input_audio_buffer.append"
IsOutput(m) == m.type = "conversation.item.create"
SentOfType(b, type) == {i \in Indices(aiSent[b]) : aiSent[b][i].type = type}
Greetings(b) == {i \in Indices(aiSent[b]) : aiSent[b][i] = GreetingCreate}

\* C1: a context stored under X is obtained by the first start event that
\* carries X, and by that one only: what a start takes is the dict the latest
\* webhook stored under X, no two starts take the same stored dict, a start
\* that finds X absent after a store comes after the start that took it, and
\* the cache holds the latest dict exactly until a start has taken it.
C1_TakenOnce ==
    /\ \A r \in startLog :
         r.taken # Nil =>
            /\ r.sid \in CallSids
            /\ r.epoch >= 1
            /\ r.taken = putLog[r.sid][r.epoch]
            /\ r.phone = r.taken.phone
            /\ r.prefetch = r.taken.prefetch_result
    /\ \A r1, r2 \in startLog :
         (r1 # r2 /\ r1.sid = r2.sid /\ r1.epoch = r2.epoch)
            => (r1.taken = Nil \/ r2.taken = Nil)
    /\ \A r \in startLog :
         (r.taken = Nil /\ r.epoch >= 1) =>
            \E r2 \in startLog :
                r2.sid = r.sid /\ r2.epoch = r.epoch /\ r2.taken # Nil
    /\ \A x \in CallSids :
         LET k == Len(putLog[x])
             taken == \E r \in startLog : r.sid = x /\ r.epoch = k /\ r.taken # Nil
         IN  caller_info_cache[x] = IF k = 0 \/ taken THEN Nil ELSE putLog[x][k]

\* C1 witness: two media streams got a start event with the same CallSid after
\* one store; one took the context, the other found it absent.
C1_Witness ==
    \E r1, r2 \in startLog :
        /\ r1.bridge # r2.bridge
        /\ r1.sid = r2.sid
        /\ r1.epoch = r2.epoch
        /\ r1.taken # Nil
        /\ r2.taken = Nil

\* the call identifiers the start events of media stream b carried
OwnSids(b) == {r.sid : r \in StartsOf(b)} \cap CallSids

\* (phone, prefetch) is empty, or a dict a webhook stored under a call
\* identifier that a start event of media stream b carried
OwnContext(b, phone, prefetch) ==
    \/ phone = None /\ prefetch = Nil
    \/ \E x \in OwnSids(b) : \E i \in Indices(putLog[x]) :
          putLog[x][i] = CacheEntry(phone, prefetch)

\* C2: the caller phone and prefetch result a media stream holds, and those
\* it rendered its session instructions from at each start, are empty or were
\* stored under a call identifier its own start events carried; every
\* session.update it sent is rendered from such a pair.
C2_OwnContextOnly ==
    \A b \in Bridges :
        /\ OwnContext(b, caller_phone[b], prefetch_result[b])
        /\ \A r \in StartsOf(b) : OwnContext(b, r.phone, r.prefetch)
        /\ \A i \in SentOfType(b, "session.update") :
              \E phone \in Phones \cup {"", None} :
              \E prefetch \in {Nil, NotFoundResult} \cup
                              {FoundResult([contact |-> c]) : c \in Contacts} :
                  /\ OwnContext(b, phone, prefetch)
                  /\ aiSent[b][i].instructions = GetSystemPrompt(phone, prefetch)

\* C2 witness: two media streams of calls with different identifiers, each
\* configured from its own stored context, the two contexts differing.
C2_Witness ==
    \E b1, b2 \in Bridges :
        /\ call_sid[b1] \in CallSids
        /\ call_sid[b2] \in CallSids
        /\ call_sid[b1] # call_sid[b2]
        /\ prefetch_result[b1] # Nil
        /\ prefetch_result[b2] # Nil
        /\ prefetch_result[b1] # prefetch_result[b2]
        /\ SentOfType(b1, "session.update") # {}
        /\ SentOfType(b2, "session.update") # {}

\* a step media stream b takes by itself, with no further event of a peer
BridgeOwnStep(b) ==
    \/ TwilioGreeting(b)
    \/ TwilioDisconnected(b)
    \/ \E r \in LookupOutcomes : OpenAILookupReturn(b, r)
    \/ \E result \in KnowledgeResults : OpenAIKnowledgeReturn(b, result)
    \/ OpenAIResponseCreate(b)
    \/ OpenAIClosed(b)
    \/ MediaStreamFinally(b)

\* C3: once a stop event has been processed on a media stream whose AI
\* connection is open, the bridge by itself ends both loops and closes the AI
\* connection once: when it can take no further step without the AI side
\* closing or sending, both loops have ended and close was called once.
C3_StopClosesSession ==
    \A b \in Bridges :
        (twEnd[b] = "stop" /\ aiOpen[b] /\ ~ENABLED BridgeOwnStep(b)) =>
            /\ twPc[b] = "done"
            /\ oaPc[b] = "done"
            /\ closeCalls[b] = 1

\* C4: session.update is sent on the AI connection before any
\* input_audio_buffer.append and before any response.create.
C4_ConfigBeforeAudio ==
    \A b \in Bridges : \A i \in Indices(aiSent[b]) :
        aiSent[b][i].type \in {"input_audio_buffer.append", "response.create"} =>
            \E j \in 1..(i - 1) : aiSent[b][j].type = "session.update"

\* C5: however many start events arrive, a media stream sends at most one
\* session.update and at most one greeting, and stream_sid stays the one of
\* the first start event.
C5_ConfiguredOnce ==
    \A b \in Bridges :
        /\ Cardinality(SentOfType(b, "session.update")) <= 1
        /\ Cardinality(Greetings(b)) <= 1
        /\ \A r \in StartsOf(b) :
              (\A r2 \in StartsOf(b) : r.n <= r2.n) => stream_sid[b] = StreamSid(r.n)

\* the payloads of the audio-append messages sent on the AI connection
AudioSent(b) ==
    LET appends == SelectSeq(aiSent[b], IsAppend)
    IN  [i \in Indices(appends) |-> appends[i].audio]

\* C6: the audio-append payloads sent on the AI connection are the payloads
\* of the media events received, one per event and in arrival order; only the
\* last one is missing when its send failed on a closed connection.
C6_AudioInOrder ==
    \A b \in Bridges :
        LET out == AudioSent(b)
        IN  /\ Len(out) <= Len(mediaIn[b])
            /\ \A i \in Indices(out) : out[i] = mediaIn[b][i]
            /\ \/ Len(out) = Len(mediaIn[b])
               \/ twEnd[b] = "send_error" /\ Len(out) = Len(mediaIn[b]) - 1

\* C6 witness: two audio frames forwarded, a tool result of the other loop
\* sent between them.
C6_Witness ==
    \E b \in Bridges : \E i, j, k \in Indices(aiSent[b]) :
        /\ i < j /\ j < k
        /\ IsAppend(aiSent[b][i])
        /\ IsOutput(aiSent[b][j])
        /\ IsAppend(aiSent[b][k])
        /\ AudioSent(b) = mediaIn[b]

\* a function_call_output with this call_id was sent
Answered(b, id) ==
    \E i \in Indices(aiSent[b]) :
        IsOutput(aiSent[b][i]) /\ aiSent[b][i].call_id = id

\* C7: while the AI connection is open every function call received is
\* answered with a function_call_output, or is the one being dispatched, and
\* no provider failure ends the AI -> Twilio loop.
C7_ToolCallAnswered ==
    \A b \in Bridges :
        /\ oaEnd[b] # "provider_error"
        /\ \A i \in Indices(callsIn[b]) :
              aiOpen[b] =>
                 \/ Answered(b, callsIn[b][i].call_id)
                 \/ /\ oaPc[b] = "tool"
                    /\ pending[b] # Nil
                    /\ pending[b].call_id = callsIn[b][i].call_id

\* C8: a function call whose name is neither lookup_application_status nor
\* search_knowledge_base is answered with a function_call_output carrying the
\* structured error object for its call_id, and the loop is still running
\* when that call is the last message the AI connection delivered.
C8_UnknownToolAnswered ==
    \A b \in Bridges : \A i \in Indices(callsIn[b]) :
        LET call == callsIn[b][i]
        IN  call.name \notin {"lookup_application_status", "search_knowledge_base"} =>
               /\ \E j \in Indices(aiSent[b]) :
                     aiSent[b][j] = FunctionCallOutput(call.call_id, UnknownFunction(call.name))
               /\ (call.call_id = nAi[b] /\ aiOpen[b]) =>
                     (oaEnd[b] = "none" /\ oaPc[b] \in {"create", "recv"})

\* C8 witness: a call of an unknown tool was received and answered.
C8_Witness ==
    \E b \in Bridges : \E i \in Indices(callsIn[b]) :
        /\ callsIn[b][i].name = "transfer_call"
        /\ Answered(b, callsIn[b][i].call_id)

\* C9: a malformed message ends neither relay loop.
C9_MalformedSkipped ==
    \A b \in Bridges : twEnd[b] # "json_error" /\ oaEnd[b] # "json_error"

\* C10: every webhook invocation that has ended returned the TwiML.
C10_WebhookAnswers ==
    \A w \in Handlers :
        webhook[w].pc = "done" => webhook[w].response.kind = "twiml"

\* C11: when one relay loop has ended the other is terminated and the media
\* stream is released without a further event of a peer: once the
\* AI -> Twilio loop has ended no media event is taken and forwarded any more,
\* and when the bridge can take no step by itself the handler has ended.
C11_SiblingTerminated ==
    \A b \in Bridges :
        /\ oaPc[b] = "done" => ~ENABLED TwilioMedia(b)
        /\ ((twPc[b] = "done" \/ oaPc[b] = "done") /\ ~ENABLED BridgeOwnStep(b))
              => pc[b] = "ended"

\* C12: the bridge calls close on the AI connection at most once: once when
\* the connection was established and the handler has finished, never
\* before that and never when no connection was established.
C12_ClosedOnce ==
    \A b \in Bridges :
        /\ closeCalls[b] <= 1
        /\ pc[b] = "ended" => (openai_ws[b] # None /\ closeCalls[b] = 1)
        /\ pc[b] # "ended" => closeCalls[b] = 0
        /\ pc[b] \in {"idle", "connecting", "no_key", "connect_failed"}
              => openai_ws[b] = None

\* C12 witness: a handler whose connection was established has finished after
\* the AI side had closed the connection itself.
C12_Witness ==
    \E b \in Bridges :
        pc[b] = "ended" /\ ~aiOpen[b] /\ closeCalls[b] = 1

\* the call the AI -> Twilio loop is awaiting the result of
PendingCall(b) ==
    CHOOSE c \in {callsIn[b][i] : i \in Indices(callsIn[b])} :
        c.call_id = pending[b].call_id

\* C13: while receive_from_openai awaits a tool result, receive_from_twilio
\* keeps reading: a media event that arrives is taken at once and its payload
\* appended to what was sent on the AI connection, the tool call still
\* pending; and no frame received so far is held back.
C13_AudioDuringTool ==
    \A b \in Bridges :
        (oaPc[b] = "tool" /\ aiOpen[b]) =>
            /\ (pc[b] = "gather" /\ twPc[b] = "recv" /\ twOpen[b] /\ MoreEvents(b)) =>
                  ENABLED (/\ TwilioMedia(b)
                           /\ aiSent'[b] = Append(aiSent[b], AudioAppend(Len(mediaIn[b]) + 1))
                           /\ oaPc'[b] = "tool")
            /\ twEnd[b] = "none" => AudioSent(b) = mediaIn[b]

\* C13 witness: a media event arrived after the pending tool call and its
\* payload is on the AI connection while the call is still awaited.
C13_Witness ==
    \E b \in Bridges :
        /\ oaPc[b] = "tool"
        /\ Len(mediaIn[b]) > PendingCall(b).media_before
        /\ AudioSent(b) = mediaIn[b]
        /\ IsAppend(aiSent[b][Len(aiSent[b])])

InSeq(x, seq) == \E i \in Indices(seq) : seq[i] = x
PhoneMatches(call) ==
    /\ ~Falsy(call.args.phone)
    /\ ~call.prov.phone.raises
    /\ Len(call.prov.phone.rows) > 0
EmailMatches(call) ==
    /\ InSeq("email", call.searched)
    /\ ~call.prov.email.raises
    /\ Len(call.prov.email.rows) > 0

\* C14: lookup_application_status searches by phone, then email, then name,
\* and stops at the first match: a phone match gives the result of the phone
\* record with no other search invoked; the email search is invoked only when
\* the phone search did not match, the name search only when neither did, and
\* an email match gives the result of the email record with no name search.
C14_LookupPriority ==
    lookup.pc = "returned" =>
        /\ lookup.searched \in {<<>>, <<"phone">>, <<"email">>, <<"name">>,
                                <<"phone", "email">>, <<"phone", "name">>,
                                <<"email", "name">>, <<"phone", "email", "name">>}
        /\ PhoneMatches(lookup) =>
              /\ lookup.searched = <<"phone">>
              /\ lookup.result = FoundResult([contact |-> lookup.prov.phone.rows[1]])
        /\ InSeq("email", lookup.searched) => ~PhoneMatches(lookup)
        /\ InSeq("name", lookup.searched) =>
              (~PhoneMatches(lookup) /\ ~EmailMatches(lookup))
        /\ EmailMatches(lookup) =>
              /\ ~InSeq("name", lookup.searched)
              /\ lookup.result = FoundResult([contact |-> lookup.prov.email.rows[1]])

\* C14 witness: phone and email both supplied and both matching different
\* records; the call returned the phone record.
C14_Witness ==
    /\ lookup.pc = "returned"
    /\ lookup.args.phone = "p1"
    /\ lookup.args.email = "e1"
    /\ lookup.prov.phone.rows = <<"maria">>
    /\ lookup.prov.email.rows = <<"juan">>
    /\ lookup.result = FoundResult([contact |-> "maria"])
    /\ lookup.searched = <<"phone">>

\* C15: when the name search is reached and matches more than one record the
\* call returns the ambiguous result, found = false.
C15_AmbiguousName ==
    (/\ lookup.pc = "returned"
     /\ InSeq("name", lookup.searched)
     /\ ~lookup.prov.name.raises
     /\ Len(lookup.prov.name.rows) > 1) =>
        /\ lookup.result = AmbiguousResult
        /\ ~lookup.result.found

\* C15 witness: the name search was reached after an email search without a
\* match and found two different candidates; the result is the ambiguous one.
C15_Witness ==
    /\ lookup.pc = "returned"
    /\ lookup.searched = <<"email", "name">>
    /\ lookup.prov.name.rows = <<"ana", "luis">>
    /\ lookup.result = AmbiguousResult

\* C16: search_knowledge_base polls the run status at most 30 times, and
\* when no poll up to the 30th reported completed, failed, cancelled or
\* expired the result is the fallback answer, found = false.
C16_KnowledgeTimeout ==
    kb.pc # "none" =>
        /\ kb.polls <= MaxPolls
        /\ kb.pc = "poll" => kb.polls < MaxPolls
        /\ (kb.pc = "done" /\ kb.polls = MaxPolls /\ ~kb.terminal) =>
              ~kb.result.found

\* the messages receive_from_openai has sent on the AI connection
IsToolMessage(m) == IsOutput(m) \/ m = ToolCreate
ToolSent(b) == SelectSeq(aiSent[b], IsToolMessage)

\* C17: what the AI -> Twilio loop sends on the AI connection is, request by
\* request in the order received, the function_call_output with the call_id
\* of the request and then one response.create; a response.create never comes
\* without the output of its request before it, and a request the loop has
\* finished handling has both.
C17_OutputThenCreate ==
    \A b \in Bridges :
        LET sent == ToolSent(b)
            n == Len(callsIn[b])
        IN  /\ \A i \in Indices(sent) :
                  IF i % 2 = 1
                  THEN /\ IsOutput(sent[i])
                       /\ (i + 1) \div 2 <= n
                       /\ sent[i].call_id = callsIn[b][(i + 1) \div 2].call_id
                  ELSE sent[i] = ToolCreate
            /\ oaPc[b] = "recv" => Len(sent) = 2 * n
            /\ oaPc[b] = "create" => Len(sent) = 2 * n - 1
            /\ oaPc[b] = "tool" => Len(sent) = 2 * n - 2
            /\ (oaPc[b] = "done" /\ n > 0) => Len(sent) >= 2 * n - 2

\* C17 witness: two requests handled, the second after the first was
\* answered in full.
C17_Witness ==
    \E b \in Bridges :
        /\ Len(callsIn[b]) = 2
        /\ Len(ToolSent(b)) = 4
        /\ callsIn[b][1].name = "lookup_application_status"
        /\ oaPc[b] = "recv"

\* a step of media stream b that is call work: a message goes out on the AI
\* connection or to the transport, or a tool dispatch starts
CallWork(b) ==
    /\ \/ ConnectionStep(b)
       \/ TwilioStep(b, CallSids \cup {None})
       \/ OpenAIStep(b)
    /\ \/ aiSent'[b] # aiSent[b]
       \/ twSent'[b] # twSent[b]
       \/ oaPc'[b] = "tool" /\ oaPc[b] # "tool"

\* C18: after the stop event has been processed nothing more is sent on the
\* AI connection or to the transport and no tool dispatch starts.
C18_NoWorkAfterStop ==
    \A b \in Bridges : twEnd[b] = "stop" => ~ENABLED CallWork(b)

\* C19: nothing is sent to the transport while stream_sid is unknown, a
\* delta received then is dropped with the loop going on, a delta received
\* when it is known goes out next, tagged with it; every media event sent
\* carries the streamSid of a start event of this media stream, and the
\* payloads sent are in the order the deltas were received.
C19_DeltaTagged ==
    \A b \in Bridges :
        /\ stream_sid[b] = Nil => twSent[b] = <<>>
        /\ (OpenAIReceiving(b) /\ MoreEvents(b) /\ stream_sid[b] = Nil) =>
              /\ ENABLED (OpenAIAudioDelta(b) /\ oaPc'[b] = "recv")
              /\ ~ENABLED (OpenAIAudioDelta(b) /\ twSent'[b] # twSent[b])
        /\ (OpenAIReceiving(b) /\ MoreEvents(b) /\ stream_sid[b] # Nil /\ twOpen[b]) =>
              ENABLED (/\ OpenAIAudioDelta(b)
                       /\ twSent'[b] = Append(twSent[b],
                                              TwilioMediaOut(stream_sid[b], nAi[b] + 1)))
        /\ \A i \in Indices(twSent[b]) :
              /\ twSent[b][i].event = "media"
              /\ \E r \in StartsOf(b) : twSent[b][i].streamSid = StreamSid(r.n)
        /\ \A i, j \in Indices(twSent[b]) :
              i < j => twSent[b][i].payload < twSent[b][j].payload

\* C19 witness: the first delta came before the start event and was dropped,
\* the second came after it and was sent with the stream's streamSid.
C19_Witness ==
    \E b \in Bridges :
        /\ nAi[b] = 2
        /\ callsIn[b] = <<>>
        /\ twSent[b] = <<TwilioMediaOut(stream_sid[b], 2)>>

\* receive_from_openai takes a message of the AI session
OpenAITakesMessage(b) ==
    \/ \E type \in DiagnosticTypes : OpenAIDiagnostic(b, type)
    \/ OpenAIAudioDelta(b)
    \/ \E name \in ToolNames : OpenAIFunctionCall(b, name)

\* C20: before the start event has been handled (stream_sid and the caller
\* context written, session.update sent) the AI -> Twilio loop takes no
\* message of the AI session.
C20_ConfiguredBeforeMessages ==
    \A b \in Bridges :
        SentOfType(b, "session.update") = {} =>
            /\ ~ENABLED OpenAITakesMessage(b)
            /\ callsIn[b] = <<>>

\* any step of media stream b or of its peers
BridgeStep(b) ==
    \/ ConnectionStep(b)
    \/ TwilioStep(b, CallSids \cup {None})
    \/ OpenAIStep(b)

\* C21: without the API key the handler closes the transport connection and
\* attempts no connection; without the key or after a failed connect the
\* media stream is over at once: nothing was sent on an AI connection, no
\* relay loop was started, close was called on no AI handle, the stream took
\* nothing from the store, and no further step of the stream exists.
C21_AbortedSession ==
    \A b \in Bridges :
        /\ pc[b] = "no_key" => ~twOpen[b]
        /\ pc[b] \in {"no_key", "connect_failed"} =>
              /\ openai_ws[b] = None
              /\ ~aiOpen[b]
              /\ aiSent[b] = <<>>
              /\ twSent[b] = <<>>
              /\ twPc[b] = "none"
              /\ oaPc[b] = "none"
              /\ closeCalls[b] = 0
              /\ StartsOf(b) = {}
              /\ startLog = {} =>
                    \A x \in CallSids :
                        caller_info_cache[x] =
                            IF putLog[x] = <<>> THEN Nil
                            ELSE putLog[x][Len(putLog[x])]
              /\ ~ENABLED BridgeStep(b)

\* C21 witness: the connect failed while the context of the call was in the
\* store.
C21_Witness ==
    \E b \in Bridges :
        /\ pc[b] = "connect_failed"
        /\ \E x \in CallSids : caller_info_cache[x] # Nil

\* C22: a start event that takes nothing from the store (no call identifier,
\* or none that resolves) configures the session with empty context: no
\* caller phone, no prefetch result, instructions without the pre-fetched
\* section.
C22_EmptyContextOnMiss ==
    \A r \in startLog :
        r.taken = Nil =>
            /\ r.phone = None
            /\ r.prefetch = Nil
            /\ ~GetSystemPrompt(r.phone, r.prefetch).prefetch_context

\* webhook invocation w returns in this step
WebhookReturns(w) == webhook[w].pc # "done" /\ webhook'[w].pc = "done"

OpenAIOtherStep(b) ==
    \/ \E type \in DiagnosticTypes : OpenAIDiagnostic(b, type)
    \/ \E name \in ToolNames : OpenAIFunctionCall(b, name)
    \/ \E r \in LookupOutcomes : OpenAILookupReturn(b, r)
    \/ \E result \in KnowledgeResults : OpenAIKnowledgeReturn(b, result)
    \/ OpenAIResponseCreate(b)
    \/ OpenAIMalformed(b)
    \/ OpenAIClosed(b)

\* C24: only response.audio.delta sends to the transport.  No step of the AI
\* loop for another message type (transcripts, speech markers,
\* session.created/updated, response.done, error, function calls) changes
\* what was sent to the transport, everything sent to the transport is a media
\* event, and an error message can be taken whenever the AI loop is receiving
\* and leaves both loops where they were, the AI connection open and the
\* session unclosed.
C24_OnlyDeltaForwarded ==
    \A b \in Bridges :
        /\ ~ENABLED (OpenAIOtherStep(b) /\ twSent' # twSent)
        /\ \A i \in Indices(twSent[b]) : twSent[b][i].event = "media"
        /\ OpenAIReceiving(b) =>
              /\ \A type \in DiagnosticTypes :
                    ENABLED (OpenAIDiagnostic(b, type) /\ twSent' = twSent)
              /\ ENABLED (/\ OpenAIDiagnostic(b, "error")
                          /\ pc'[b] = "gather"
                          /\ oaPc'[b] = "recv"
                          /\ oaEnd'[b] = "none"
                          /\ twPc' = twPc
                          /\ twEnd' = twEnd
                          /\ aiOpen'[b]
                          /\ twOpen' = twOpen
                          /\ closeCalls' = closeCalls)

\* C24 witness: the AI loop is receiving with the stream identifier known,
\* the transport loop receiving too and audio already forwarded, so that a
\* diagnostic message arrives where a forward would be possible.
C24_Witness ==
    \E b \in Bridges :
        /\ OpenAIReceiving(b)
        /\ twPc[b] = "recv"
        /\ twOpen[b]
        /\ stream_sid[b] # Nil
        /\ twSent[b] # <<>>

\* C25: on the AI connection the message sent right after a session.update
\* is the greeting response.create; neither a function_call_output nor the
\* response.create that follows one stands between the two.
C25_GreetingFollowsUpdate ==
    \A b \in Bridges :
        \A i \in Indices(aiSent[b]) :
            (aiSent[b][i].type = "session.update" /\ i < Len(aiSent[b])) =>
                aiSent[b][i + 1] = GreetingCreate

=============================================================================
